---- MODULE Spec2Model ----
(***************************************************************************)
(* OHLCVCBuilder (ohlcvc_builder/builder.py) and concurrent_apply          *)
(* (ohlcvc_builder/concurrency.py): the three classifier passes over the   *)
(* trade frame, run one after the other or as tasks of a thread pool, and  *)
(* the aggregation of the classified trades into 1-minute OHLCVC bars.     *)
(*                                                                         *)
(* A DataFrame column is a sequence indexed like df_trades (which          *)
(* process_trades_dataframe left sorted by timestamp, index 0..n-1 reset;  *)
(* here 1..n); a column that does not exist yet is the empty sequence.     *)
(* One statement of a pass on a column is one atomic step of a task.       *)
(* float('nan') is NaN.  Timestamps are milliseconds of one trading day.   *)
(***************************************************************************)
EXTENDS Integers, Sequences, FiniteSets, TLC

VARIABLES
    trades,              \* self.trades: the raw trades, in arrival order
    df_trades,           \* self.df_trades: the trade rows, sorted by timestamp
    cols,                \* the columns the passes add to self.df_trades
    ENABLE_CONCURRENCY,  \* config.ENABLE_CONCURRENCY
    pc,                  \* where the caller of get_ohlcvc is
    task,                \* per pass: status of its future and its next statement
    grouped,             \* close pass: include_in_close as seen through `group`
    scan,                \* close pass: conditional trades still to be evaluated
    ohlc                 \* the frame calculate_ohlcvc returned (<<>> before)

vars == <<trades, df_trades, cols, ENABLE_CONCURRENCY, pc, task, grouped, scan, ohlc>>

----------------------------------------------------------------------------
(* Bounds of the model *)

\* most trades in one input of the sequential pipeline
MaxTicks == 2
\* most trades in one input when the passes run on the pool
MaxPoolTicks == 2

----------------------------------------------------------------------------
(* Constants of the program *)

NaN == 0 - 1

\* '09:30:00' and '16:00:00' as milliseconds of the day
RTH_START == 34200000
RTH_END == 57600000
\* freq='1min' in milliseconds
INTERVAL == 60000
\* the pool size of concurrent_apply
MAX_WORKERS == 4

conditional_condition_codes == {2, 5, 8, 13, 15, 96, 98}

Passes == {"general", "close", "volume"}

IncludeColumns ==
    {"include_in_open", "include_in_high", "include_in_low",
     "include_in_close", "include_in_volume"}

----------------------------------------------------------------------------
(* Inputs: the condition table and the trades *)

\* trade_conditions_df: one row per code; Last is True, False or
\* 'conditional' (load_trade_conditions maps '*' of the last column to it)
TradeConditions ==
    (0  :> [Cancel |-> FALSE, Volume |-> TRUE,  High |-> TRUE,  Low |-> TRUE,  Last |-> "True"]) @@
    (2  :> [Cancel |-> FALSE, Volume |-> TRUE,  High |-> TRUE,  Low |-> TRUE,  Last |-> "conditional"]) @@
    (5  :> [Cancel |-> FALSE, Volume |-> TRUE,  High |-> TRUE,  Low |-> TRUE,  Last |-> "conditional"]) @@
    (13 :> [Cancel |-> FALSE, Volume |-> TRUE,  High |-> TRUE,  Low |-> FALSE, Last |-> "conditional"]) @@
    (15 :> [Cancel |-> FALSE, Volume |-> TRUE,  High |-> FALSE, Low |-> FALSE, Last |-> "conditional"]) @@
    (40 :> [Cancel |-> TRUE,  Volume |-> FALSE, High |-> TRUE,  Low |-> TRUE,  Last |-> "False"]) @@
    (96 :> [Cancel |-> FALSE, Volume |-> FALSE, High |-> FALSE, Low |-> TRUE,  Last |-> "conditional"])

\* condition codes of the trades of an input; 99 is in no row of the table
Codes == {0, 2, 5, 13, 15, 40, 96, 99}
PoolCodes == {0, 13, 15, 40}

\* 09:29:59.999, 09:30:00, 09:30:30, 09:32:00
MorningTimes == {34199999, 34200000, 34230000, 34320000}
\* 15:59:59.999, 16:00:00
ClosingTimes == {57599999, 57600000}
PoolTimes == {34199999, 34200000, 34230000}

\* (price, size) of a trade
Quotes == {<<1, 2>>, <<2, 1>>}
PoolQuotes == {<<1, 2>>}

IsSorted(ts) == \A i \in 1..(Len(ts) - 1) : ts[i] <= ts[i + 1]

Trade(t, c, q) == [timestamp |-> t, price |-> q[1], size |-> q[2], condition |-> c]

\* df is a frame _create_dataframe can leave: at most maxn rows with
\* timestamps of times, codes of codes and (price, size) of quotes, sorted
\* by timestamp
IsFrame(df, maxn, times, codes, quotes) ==
    \E n \in 1..maxn :
        \E ts \in [1..n -> times] :
            /\ IsSorted(ts)
            /\ \E at \in [1..n -> codes \X quotes] :
                df = [i \in 1..n |-> Trade(ts[i], at[i][1], at[i][2])]

----------------------------------------------------------------------------
(* __init__: the code sets, and the flags merge_trade_conditions attaches *)

\* _determine_conditions('Cancel', False)
eligible_conditions == {c \in DOMAIN TradeConditions : TradeConditions[c].Cancel = FALSE}
\* _determine_conditions('Volume', True)
volume_true_conditions == {c \in DOMAIN TradeConditions : TradeConditions[c].Volume = TRUE}

\* the merged columns; a code without a row gets False (fillna(False))
High(c) == IF c \in DOMAIN TradeConditions THEN TradeConditions[c].High ELSE FALSE
Low(c) == IF c \in DOMAIN TradeConditions THEN TradeConditions[c].Low ELSE FALSE
Last(c) == IF c \in DOMAIN TradeConditions THEN TradeConditions[c].Last ELSE "False"

N == Len(df_trades)
Rows == 1..N

NoColumns ==
    [RTH |-> <<>>, include_in_open |-> <<>>, include_in_high |-> <<>>,
     include_in_low |-> <<>>, include_in_close |-> <<>>, include_in_volume |-> <<>>]

\* a column of the frame df with the same value in every row
Const(df, v) == [i \in 1..Len(df) |-> v]

\* pd.Grouper(freq='1min'): the interval a timestamp falls in
Bucket(t) == t \div INTERVAL
\* the rows of df in interval b
GroupRows(df, b) == {i \in 1..Len(df) : Bucket(df[i].timestamp) = b}

SetMin(S) == CHOOSE x \in S : \A y \in S : x <= y
SetMax(S) == CHOOSE x \in S : \A y \in S : x >= y

----------------------------------------------------------------------------
(* The three passes.  A pass works on st = [c, grouped, scan]: the columns *)
(* of the frame and the two locals of the close pass.  Step p of a pass is *)
(* its p-th statement that writes a column or a local.                     *)

eligible_conditions_mask(df, i) == df[i].condition \in eligible_conditions

\* InRTH with both ends of the window included
InRTHBothEnds(t) == RTH_START <= t % 86400000 /\ t % 86400000 <= RTH_END

\* Series.dt.time.between(09:30:00, 16:00:00, inclusive='left')
InRTH(t) == RTH_START <= t % 86400000 /\ t % 86400000 < RTH_END

\* _apply_general_conditions, statement p (lines 93, 98, 103, 104, 107, 108, 111, 112)
GeneralStmt(df, c, p) ==
    CASE p = 1 -> [c EXCEPT !.RTH = [i \in 1..Len(df) |-> InRTH(df[i].timestamp)]]
      [] p = 2 -> [c EXCEPT !.include_in_open =
                        [i \in 1..Len(df) |-> df[i].condition \in eligible_conditions]]
      [] p = 3 -> [c EXCEPT !.include_in_high = Const(df, FALSE)]
      [] p = 4 -> [c EXCEPT !.include_in_low = Const(df, FALSE)]
      [] p = 5 -> [c EXCEPT !.include_in_high =
                        [i \in 1..Len(df) |->
                            IF c.RTH[i]
                            THEN eligible_conditions_mask(df, i) /\ High(df[i].condition)
                            ELSE c.include_in_high[i]]]
      [] p = 6 -> [c EXCEPT !.include_in_low =
                        [i \in 1..Len(df) |->
                            IF c.RTH[i]
                            THEN eligible_conditions_mask(df, i) /\ Low(df[i].condition)
                            ELSE c.include_in_low[i]]]
      [] p = 7 -> [c EXCEPT !.include_in_high =
                        [i \in 1..Len(df) |->
                            IF ~c.RTH[i]
                            THEN eligible_conditions_mask(df, i) /\ ~c.RTH[i]
                            ELSE c.include_in_high[i]]]
      [] p = 8 -> [c EXCEPT !.include_in_low =
                        [i \in 1..Len(df) |->
                            IF ~c.RTH[i]
                            THEN eligible_conditions_mask(df, i) /\ ~c.RTH[i]
                            ELSE c.include_in_low[i]]]

\* VolumeStmt writing a column of the close pass as well
VolumeStmtClearsClose(df, c) ==
    [c EXCEPT !.include_in_volume =
                [i \in 1..Len(df) |-> df[i].condition \in volume_true_conditions],
              !.include_in_close = Const(df, FALSE)]

\* _apply_volume_conditions (line 118)
VolumeStmt(df, c) ==
    [c EXCEPT !.include_in_volume =
        [i \in 1..Len(df) |-> df[i].condition \in volume_true_conditions]]

\* the rows of df whose code needs conditional handling, in index order:
\* the order in which the loops of lines 132 and 141 reach them
RECURSIVE ConditionalFrom(_, _)
ConditionalFrom(df, i) ==
    IF i > Len(df) THEN <<>>
    ELSE IF df[i].condition \in conditional_condition_codes
         THEN <<i>> \o ConditionalFrom(df, i + 1)
         ELSE ConditionalFrom(df, i + 1)

\* OnlyRelevant accepting any number of conditional trades
AnyRelevant(df, idx) ==
    Cardinality({j \in GroupRows(df, Bucket(df[idx].timestamp)) :
                    df[j].condition \in conditional_condition_codes}) >= 1

\* lines 144-148: the only conditional trade of its interval
OnlyRelevant(df, idx) ==
    Cardinality({j \in GroupRows(df, Bucket(df[idx].timestamp)) :
                    df[j].condition \in conditional_condition_codes}) = 1

\* lines 150-155: `group` holds no trade with include_in_close; group is the
\* sub-frame the groupby of line 131 yielded, so its include_in_close is the
\* column as it was then (seen), not the column the loop writes with .at
NoCloseInGroup(df, seen, idx) ==
    \A j \in GroupRows(df, Bucket(df[idx].timestamp)) : ~seen[j]

\* lines 157-160 and 162-165: idx == group.index[0], idx == group.index[-1]
FirstOfGroup(df, idx) == idx = SetMin(GroupRows(df, Bucket(df[idx].timestamp)))
LastOfGroup(df, idx) == idx = SetMax(GroupRows(df, Bucket(df[idx].timestamp)))

\* lines 141-165 for the conditional trade idx: does .at set its flag
SetsClose(df, seen, idx) ==
    LET code == df[idx].condition IN
    CASE code \in {2, 5, 8} -> OnlyRelevant(df, idx)
      [] code = 13 -> NoCloseInGroup(df, seen, idx)
      [] code = 15 -> FirstOfGroup(df, idx)
      [] code \in {96, 98} -> LastOfGroup(df, idx)
      [] OTHER -> FALSE

\* _apply_close_conditions, step p: line 124, line 125, line 131 (the
\* groupby), then one iteration of the loop of line 141 per step
CloseStmt(df, st, p) ==
    CASE p = 1 -> [st EXCEPT !.c.include_in_close = Const(df, FALSE)]
      [] p = 2 -> [st EXCEPT !.c.include_in_close =
                        [i \in 1..Len(df) |->
                            IF Last(df[i].condition) = "True" THEN TRUE
                            ELSE st.c.include_in_close[i]]]
      [] p = 3 -> [st EXCEPT !.grouped = st.c.include_in_close,
                             !.scan = ConditionalFrom(df, 1)]
      [] OTHER ->
            LET idx == Head(st.scan) IN
            [st EXCEPT !.scan = Tail(st.scan),
                       !.c.include_in_close[idx] =
                            IF SetsClose(df, st.grouped, idx) THEN TRUE ELSE @]

PassStmt(t, df, st, p) ==
    CASE t = "general" -> [st EXCEPT !.c = GeneralStmt(df, st.c, p)]
      [] t = "volume" -> [st EXCEPT !.c = VolumeStmt(df, st.c)]
      [] t = "close" -> CloseStmt(df, st, p)

\* the pass has returned before its step p
PassFinished(t, st, p) ==
    CASE t = "general" -> p > 8
      [] t = "volume" -> p > 1
      [] t = "close" -> p > 3 /\ st.scan = <<>>

\* the locals of a pass are gone when it returns
Return(t, st) == IF t = "close" THEN [st EXCEPT !.grouped = <<>>, !.scan = <<>>] ELSE st

\* the pass t from its step p to its return
RECURSIVE RunPass(_, _, _, _)
RunPass(t, df, st, p) ==
    IF PassFinished(t, st, p) THEN Return(t, st)
    ELSE RunPass(t, df, PassStmt(t, df, st, p), p + 1)

\* the steps p..q-1 of pass t
RECURSIVE RunSteps(_, _, _, _, _)
RunSteps(t, df, st, p, q) ==
    IF p >= q \/ PassFinished(t, st, p) THEN st
    ELSE RunSteps(t, df, PassStmt(t, df, st, p), p + 1, q)

\* apply_conditions_sequentially on a fresh frame
ClassifySequentially(df) ==
    LET s0 == [c |-> NoColumns, grouped |-> <<>>, scan |-> <<>>]
        s1 == RunPass("general", df, s0, 1)
        s2 == RunPass("close", df, s1, 1)
        s3 == RunPass("volume", df, s2, 1)
    IN s3.c

----------------------------------------------------------------------------
(* calculate_ohlcvc *)

\* the rows of df whose flag column f holds True: df[df[f]]
Flagged(df, f) == {i \in 1..Len(df) : f[i]}

\* Series.resample(interval): one interval per boundary from the interval
\* of the first to the interval of the last of the rows R (none for no rows)
ResampleIndex(df, R) ==
    IF R = {} THEN {}
    ELSE SetMin({Bucket(df[i].timestamp) : i \in R}) ..
         SetMax({Bucket(df[i].timestamp) : i \in R})

\* the rows of R in interval b
In(df, R, b) == R \cap GroupRows(df, b)

RECURSIVE SumSize(_, _)
SumSize(df, S) ==
    IF S = {} THEN 0
    ELSE LET i == SetMin(S) IN df[i].size + SumSize(df, S \ {i})

\* .first(), .max(), .min() of price, .sum() of size, .count() of price
\* over the rows S of one interval
First(df, S) == IF S = {} THEN NaN ELSE df[SetMin(S)].price
Max(df, S) == IF S = {} THEN NaN ELSE SetMax({df[i].price : i \in S})
Min(df, S) == IF S = {} THEN NaN ELSE SetMin({df[i].price : i \in S})
\* Count as the number of distinct prices (nunique for count)
CountUnique(df, S) == Cardinality({df[i].price : i \in S})
Sum(df, S) == SumSize(df, S)
Count(df, S) == Cardinality(S)

\* get_close taking the first flagged trade (iloc[0] for iloc[-1])
get_close_first(df, c, b) ==
    LET g == GroupRows(df, b)
        close_trades == g \cap Flagged(df, c.include_in_close)
    IN  IF close_trades /= {} THEN df[SetMin(close_trades)].price
        ELSE IF g /= {} THEN df[SetMax(g)].price
        ELSE NaN

\* get_close(g) for the group g of interval b (lines 183-190)
get_close(df, c, b) ==
    LET g == GroupRows(df, b)
        close_trades == g \cap Flagged(df, c.include_in_close)
    IN  IF close_trades /= {} THEN df[SetMax(close_trades)].price
        ELSE IF g /= {} THEN df[SetMax(g)].price
        ELSE NaN

\* DataFrame.fillna(method='ffill') on one column, given as a sequence
FFill(s) ==
    [k \in 1..Len(s) |->
        LET J == {j \in 1..k : s[j] /= NaN}
        IN  IF J = {} THEN NaN ELSE s[SetMax(J)]]

\* a series aligned to the index of ohlc: NaN where it has no label b
Aligned(index, b, v) == IF b \in index THEN v ELSE NaN

\* the frame of lines 179-198, before the fill of line 199: one row per
\* interval of the union of the indexes of open_, high, low and close
Unfilled(df, c) ==
    LET all == 1..Len(df)
        o == Flagged(df, c.include_in_open)
        h == Flagged(df, c.include_in_high)
        l == Flagged(df, c.include_in_low)
        v == Flagged(df, c.include_in_volume)
        index == ResampleIndex(df, o) \cup ResampleIndex(df, h)
                    \cup ResampleIndex(df, l) \cup ResampleIndex(df, all)
        first == SetMin(index)
    IN  [k \in 1..Cardinality(index) |->
            LET b == first + k - 1 IN
            [interval |-> b,
             open |-> Aligned(ResampleIndex(df, o), b, First(df, In(df, o, b))),
             high |-> Aligned(ResampleIndex(df, h), b, Max(df, In(df, h, b))),
             low |-> Aligned(ResampleIndex(df, l), b, Min(df, In(df, l, b))),
             close |-> get_close(df, c, b),
             volume |-> Aligned(ResampleIndex(df, v), b, Sum(df, In(df, v, b))),
             count |-> Aligned(ResampleIndex(df, all), b, Count(df, In(df, all, b)))]]

\* line 199: every column of ohlc forward-filled
FilledFrame(u) ==
    [k \in 1..Len(u) |->
        [interval |-> u[k].interval,
         open |-> FFill([j \in 1..Len(u) |-> u[j].open])[k],
         high |-> FFill([j \in 1..Len(u) |-> u[j].high])[k],
         low |-> FFill([j \in 1..Len(u) |-> u[j].low])[k],
         close |-> FFill([j \in 1..Len(u) |-> u[j].close])[k],
         volume |-> FFill([j \in 1..Len(u) |-> u[j].volume])[k],
         count |-> FFill([j \in 1..Len(u) |-> u[j].count])[k]]]

calculate_ohlcvc(df, c) == FilledFrame(Unfilled(df, c))

\* the columns calculate_ohlcvc indexes with all exist (else KeyError)
HasIncludeColumns(c) ==
    /\ c.include_in_open /= <<>>
    /\ c.include_in_high /= <<>>
    /\ c.include_in_low /= <<>>
    /\ c.include_in_close /= <<>>
    /\ c.include_in_volume /= <<>>

----------------------------------------------------------------------------
(* get_ohlcvc *)

St == [c |-> cols, grouped |-> grouped, scan |-> scan]

NoTasks == [t \in Passes |-> [status |-> "none", next |-> 1]]

Start(modes) ==
    /\ ENABLE_CONCURRENCY \in modes
    /\ cols = NoColumns
    /\ pc = "get_ohlcvc"
    /\ task = NoTasks
    /\ grouped = <<>>
    /\ scan = <<>>
    /\ ohlc = <<>>

\* with the passes on the pool or not, small frames
Init ==
    /\ IsFrame(df_trades, MaxPoolTicks, PoolTimes, PoolCodes, PoolQuotes)
    /\ trades = df_trades
    /\ Start(BOOLEAN)

\* the passes one after the other, larger frames
InitSeq ==
    /\ \/ IsFrame(df_trades, MaxTicks, MorningTimes, Codes, Quotes)
       \/ IsFrame(df_trades, MaxTicks, ClosingTimes, Codes, Quotes)
    /\ trades = df_trades
    /\ Start({FALSE})

\* the pass after pass t in apply_conditions_sequentially
After(t) ==
    CASE t = "general" -> "close"
      [] t = "close" -> "volume"
      [] t = "volume" -> "calculate"

\* apply_conditions, ENABLE_CONCURRENCY false (lines 69-70)
ApplySequentially ==
    /\ pc = "get_ohlcvc"
    /\ ~ENABLE_CONCURRENCY
    /\ pc' = "general"
    /\ UNCHANGED <<trades, df_trades, cols, ENABLE_CONCURRENCY, task, grouped, scan, ohlc>>

\* apply_conditions_sequentially calls pass t (lines 76-78), which returns
SeqPass(t) ==
    /\ pc = t
    /\ LET st == RunPass(t, df_trades, St, 1) IN
        /\ cols' = st.c
        /\ grouped' = st.grouped
        /\ scan' = st.scan
    /\ pc' = After(t)
    /\ UNCHANGED <<trades, df_trades, ENABLE_CONCURRENCY, task, ohlc>>

\* pass t, called by apply_conditions_sequentially, raises in its step p:
\* the exception leaves apply_conditions and get_ohlcvc
SeqRaise(t) ==
    /\ pc = t
    /\ \E p \in 1..(8 + N) :
        /\ ~PassFinished(t, RunSteps(t, df_trades, St, 1, p), p)
        /\ LET st == RunSteps(t, df_trades, St, 1, p) IN
            /\ cols' = st.c
            /\ grouped' = <<>>
            /\ scan' = <<>>
    /\ pc' = "raised"
    /\ UNCHANGED <<trades, df_trades, ENABLE_CONCURRENCY, task, ohlc>>

\* apply_conditions_concurrently: executor.submit of the three passes
\* (concurrency.py line 11), then concurrent.futures.wait
ApplyConcurrently ==
    /\ pc = "get_ohlcvc"
    /\ ENABLE_CONCURRENCY
    /\ task' = [t \in Passes |-> [status |-> "pending", next |-> 1]]
    /\ pc' = "wait"
    /\ UNCHANGED <<trades, df_trades, cols, ENABLE_CONCURRENCY, grouped, scan, ohlc>>

NumRunning == Cardinality({t \in Passes : task[t].status = "running"})

\* a worker of the pool has, or can take, the future of pass t
Runnable(t) ==
    \/ task[t].status = "running"
    \/ task[t].status = "pending" /\ NumRunning < MAX_WORKERS

\* a worker runs the next step of pass t; after the last, the future is done
TaskStep(t) ==
    /\ Runnable(t)
    /\ LET p == task[t].next
           st == PassStmt(t, df_trades, St, p)
           fin == PassFinished(t, st, p + 1)
           out == IF fin THEN Return(t, st) ELSE st
       IN
        /\ cols' = out.c
        /\ grouped' = out.grouped
        /\ scan' = out.scan
        /\ task' = [task EXCEPT ![t] = [status |-> IF fin THEN "done" ELSE "running",
                                        next |-> p + 1]]
    /\ UNCHANGED <<trades, df_trades, ENABLE_CONCURRENCY, pc, ohlc>>

\* the next step of pass t raises: the future holds the exception
TaskRaise(t) ==
    /\ Runnable(t)
    /\ task' = [task EXCEPT ![t].status = "raised"]
    /\ grouped' = IF t = "close" THEN <<>> ELSE grouped
    /\ scan' = IF t = "close" THEN <<>> ELSE scan
    /\ UNCHANGED <<trades, df_trades, cols, ENABLE_CONCURRENCY, pc, ohlc>>

\* a wait that returns as soon as one future has completed
\* (return_when=FIRST_COMPLETED) and an executor that is not shut down
WaitReturnsFirstCompleted ==
    /\ pc = "wait"
    /\ \E t \in Passes : task[t].status \in {"done", "raised"}
    /\ pc' = "calculate"
    /\ UNCHANGED <<trades, df_trades, cols, ENABLE_CONCURRENCY, task, grouped, scan, ohlc>>

\* concurrent.futures.wait(futures) returns once every future is done or
\* has raised (concurrency.py line 12); no future's result() is asked for,
\* the with block ends, and apply_conditions returns to get_ohlcvc
WaitReturns ==
    /\ pc = "wait"
    /\ \A t \in Passes : task[t].status \in {"done", "raised"}
    /\ pc' = "calculate"
    /\ UNCHANGED <<trades, df_trades, cols, ENABLE_CONCURRENCY, task, grouped, scan, ohlc>>

\* get_ohlcvc calls calculate_ohlcvc (line 211) and returns its frame
Calculate ==
    /\ pc = "calculate"
    /\ IF HasIncludeColumns(cols)
       THEN /\ ohlc' = calculate_ohlcvc(df_trades, cols)
            /\ pc' = "returned"
       ELSE /\ ohlc' = ohlc
            /\ pc' = "raised"
    /\ UNCHANGED <<trades, df_trades, cols, ENABLE_CONCURRENCY, task, grouped, scan>>

Next ==
    \/ ApplySequentially
    \/ \E t \in Passes : SeqPass(t)
    \/ \E t \in Passes : SeqRaise(t)
    \/ ApplyConcurrently
    \/ \E t \in Passes : TaskStep(t)
    \/ \E t \in Passes : TaskRaise(t)
    \/ WaitReturns
    \/ Calculate

Spec == Init /\ [][Next]_vars

NextSeq ==
    \/ ApplySequentially
    \/ \E t \in Passes : SeqPass(t)
    \/ Calculate

SpecSeq == InitSeq /\ [][NextSeq]_vars

----------------------------------------------------------------------------
(* __init__ from raw trades: _create_dataframe and process_trades_dataframe *)

MaxRawTicks == 2

\* raw trades as they arrive: in any order of time, ties included, and with
\* a price that does not parse, which errors='coerce' turns into NaN
RawTimes == {34200000, 34230000}
RawCodes == {0, 15, 40, 96}
RawQuotes == {<<1, 1>>, <<2, 1>>, <<NaN, 1>>}

\* dropna(subset=['timestamp', 'price', 'size', 'condition']) keeps the
\* rows none of whose four values is NaN, in their order
dropna(df) ==
    SelectSeq(df, LAMBDA r : /\ r.timestamp # NaN
                             /\ r.price # NaN
                             /\ r.size # NaN
                             /\ r.condition # NaN)

\* sort_values(by='timestamp') is called without kind, which is pandas'
\* 'quicksort': the rows come out ascending by timestamp, and the order of
\* rows of equal timestamp is whatever the sort leaves. The outcomes are
\* the arrangements of the rows that ascend by timestamp.
sort_values(df) ==
    {[i \in 1..Len(df) |-> df[p[i]]] :
        p \in {q \in Permutations(1..Len(df)) :
                    IsSorted([i \in 1..Len(df) |-> df[q[i]].timestamp])}}

\* the frames process_trades_dataframe can return for the raw frame df;
\* reset_index renumbers the rows 1..n, which a sequence already is
process_trades_dataframe(df) == sort_values(dropna(df))

\* the builder as __init__ finds it: self.trades set, no frame yet
InitNorm ==
    /\ \E n \in 1..MaxRawTicks :
        \E at \in [1..n -> RawTimes \X RawCodes \X RawQuotes] :
            trades = [i \in 1..n |-> Trade(at[i][1], at[i][2], at[i][3])]
    /\ dropna(trades) # <<>>
    /\ df_trades = <<>>
    /\ ENABLE_CONCURRENCY = FALSE
    /\ cols = NoColumns
    /\ pc = "__init__"
    /\ task = NoTasks
    /\ grouped = <<>>
    /\ scan = <<>>
    /\ ohlc = <<>>

\* self.df_trades = self._create_dataframe(): the raw trades normalized by
\* process_trades_dataframe; the left merge of the condition table keeps
\* the rows and their order
CreateDataframe ==
    /\ pc = "__init__"
    /\ df_trades' \in process_trades_dataframe(trades)
    /\ pc' = "get_ohlcvc"
    /\ UNCHANGED <<trades, cols, ENABLE_CONCURRENCY, task, grouped, scan, ohlc>>

NextNorm ==
    \/ CreateDataframe
    \/ ApplySequentially
    \/ \E t \in Passes : SeqPass(t)
    \/ Calculate

SpecNorm == InitNorm /\ [][NextNorm]_vars

----------------------------------------------------------------------------
(* Properties *)

Timestamp(i) == df_trades[i].timestamp
Price(i) == df_trades[i].price
Size(i) == df_trades[i].size
Code(i) == df_trades[i].condition

\* the trades whose timestamp falls in [b minutes, b + 1 minutes)
TradesIn(b) == {i \in Rows : b * 60000 <= Timestamp(i) /\ Timestamp(i) < (b + 1) * 60000}
SameMinute(i, j) == Timestamp(i) \div 60000 = Timestamp(j) \div 60000

Bars == 1..Len(ohlc)
NoneRaised == \A t \in Passes : task[t].status /= "raised"
GeneralReturned == pc \in {"close", "volume", "calculate", "returned"}
CloseReturned == pc \in {"volume", "calculate", "returned"}

\* the code's row of the table says it is not a cancel
NotCancel(c) == c \in DOMAIN TradeConditions /\ ~TradeConditions[c].Cancel
RuleBit(c, bit) == c \in DOMAIN TradeConditions /\ TradeConditions[c][bit]
\* the code's row of the table has Last = True
DefiniteLast(c) == c \in DOMAIN TradeConditions /\ TradeConditions[c].Last = "True"

C2_OpenHighLowOfOwnInterval ==
    pc = "returned" =>
        \A k \in Bars :
            LET g == TradesIn(ohlc[k].interval)
                o == {i \in g : cols.include_in_open[i]}
                h == {i \in g : cols.include_in_high[i]}
                l == {i \in g : cols.include_in_low[i]}
            IN  g /= {} =>
                    /\ IF o = {} THEN ohlc[k].open = NaN
                       ELSE \E i \in o : /\ ohlc[k].open = Price(i)
                                         /\ \A j \in o : i <= j
                    /\ IF h = {} THEN ohlc[k].high = NaN
                       ELSE /\ \E i \in h : ohlc[k].high = Price(i)
                            /\ \A i \in h : Price(i) <= ohlc[k].high
                    /\ IF l = {} THEN ohlc[k].low = NaN
                       ELSE /\ \E i \in l : ohlc[k].low = Price(i)
                            /\ \A i \in l : Price(i) >= ohlc[k].low

\* C3: for every interval with a trade, close is the price of the latest
\* trade of the interval with include_in_close (the last of them in the
\* frame's order); with no such trade it is the price of the last trade of
\* the interval, whatever its flags and code.
C3_Close ==
    pc = "returned" =>
        \A k \in Bars :
            LET g == TradesIn(ohlc[k].interval)
                f == {i \in g : cols.include_in_close[i]}
            IN  g /= {} =>
                    IF f /= {}
                    THEN \E i \in f :
                            /\ ohlc[k].close = Price(i)
                            /\ \A j \in f : Timestamp(j) <= Timestamp(i) /\ j <= i
                    ELSE \E i \in g :
                            /\ ohlc[k].close = Price(i)
                            /\ \A j \in g : j <= i

\* an interval of two trades with different prices where only the earlier
\* has include_in_close: close is the earlier price
C3_Witness ==
    /\ pc = "returned"
    /\ \E k \in Bars : \E i, j \in TradesIn(ohlc[k].interval) :
        /\ i < j
        /\ cols.include_in_close[i]
        /\ ~cols.include_in_close[j]
        /\ Price(i) /= Price(j)
        /\ ohlc[k].close = Price(i)

\* C4: an interval without trades between two intervals with trades has
\* open = high = low = close = the close of the bar before it, volume 0 and
\* count 0.
C4_GapFilledWithPreviousClose ==
    pc = "returned" =>
        \A k \in Bars :
            (k > 1 /\ k < Len(ohlc) /\ TradesIn(ohlc[k].interval) = {}) =>
                /\ ohlc[k].open = ohlc[k - 1].close
                /\ ohlc[k].high = ohlc[k - 1].close
                /\ ohlc[k].low = ohlc[k - 1].close
                /\ ohlc[k].close = ohlc[k - 1].close
                /\ ohlc[k].volume = 0
                /\ ohlc[k].count = 0

\* C5: every bar's volume is >= 0 and is the sum of size over the trades
\* of its interval with include_in_volume, 0 when there is none.
C5_VolumeOfOwnInterval ==
    pc = "returned" =>
        \A k \in Bars :
            /\ ohlc[k].volume >= 0
            /\ ohlc[k].volume =
                    SumSize(df_trades,
                            {i \in TradesIn(ohlc[k].interval) : cols.include_in_volume[i]})

\* C6: every bar's count is the number of trades with a timestamp in the
\* bar's interval, and the bars are one per minute from the minute of the
\* first trade to the minute of the last, in order.
C6_CountAndContiguity ==
    pc = "returned" =>
        /\ Len(ohlc) >= 1
        /\ ohlc[1].interval = Timestamp(1) \div 60000
        /\ ohlc[Len(ohlc)].interval = Timestamp(N) \div 60000
        /\ \A k \in 1..(Len(ohlc) - 1) : ohlc[k + 1].interval = ohlc[k].interval + 1
        /\ \A k \in Bars : ohlc[k].count = Cardinality(TradesIn(ohlc[k].interval))

\* three bars, the middle one of a minute without trades, the last one of
\* a minute whose only trade is a cancel
C6_Witness ==
    /\ pc = "returned"
    /\ Len(ohlc) = 3
    /\ ohlc[2].count = 0
    /\ ohlc[3].count = 1
    /\ Code(N) = 40

\* C7: after the close pass a trade of code 13 has include_in_close iff,
\* when the scan reached it, no trade of its minute had the flag: neither
\* a trade whose rule has Last = True nor a conditional trade before it in
\* the scan that the scan flagged.
C7_Code13SeesEarlierFlags ==
    CloseReturned =>
        \A i \in Rows :
            Code(i) = 13 =>
                (cols.include_in_close[i] <=>
                    \A j \in Rows \ {i} :
                        SameMinute(i, j) =>
                            /\ ~DefiniteLast(Code(j))
                            /\ ~(j < i /\ cols.include_in_close[j]))

\* C8: after the close pass a trade of code 2, 5 or 8 has include_in_close
\* iff it is the only trade of its minute with a code of
\* {2, 5, 8, 13, 15, 96, 98}.
C8_OnlyConditionalOfMinute ==
    CloseReturned =>
        \A i \in Rows :
            Code(i) \in {2, 5, 8} =>
                (cols.include_in_close[i] <=>
                    Cardinality({j \in Rows :
                        /\ SameMinute(i, j)
                        /\ Code(j) \in {2, 5, 8, 13, 15, 96, 98}}) = 1)

\* two trades of code 5 in one minute, neither flagged
C8_Witness ==
    /\ CloseReturned
    /\ \E i, j \in Rows :
        /\ i /= j
        /\ SameMinute(i, j)
        /\ Code(i) = 5
        /\ Code(j) = 5
        /\ ~cols.include_in_close[i]
        /\ ~cols.include_in_close[j]

\* C9: after the open/high/low pass, for every trade: RTH iff its time is
\* in [09:30:00, 16:00:00); include_in_open iff its code is not a cancel;
\* in RTH include_in_high (low) iff not a cancel and the rule's High (Low)
\* bit; outside RTH include_in_high and include_in_low iff not a cancel.
C9_GeneralFlags ==
    GeneralReturned =>
        \A i \in Rows :
            LET rth == 34200000 <= Timestamp(i) /\ Timestamp(i) < 57600000
                eligible == NotCancel(Code(i))
            IN  /\ cols.RTH[i] <=> rth
                /\ cols.include_in_open[i] <=> eligible
                /\ rth => /\ cols.include_in_high[i] <=>
                                (eligible /\ RuleBit(Code(i), "High"))
                          /\ cols.include_in_low[i] <=>
                                (eligible /\ RuleBit(Code(i), "Low"))
                /\ ~rth => /\ cols.include_in_high[i] <=> eligible
                           /\ cols.include_in_low[i] <=> eligible

\* a trade at 16:00:00 exactly whose rule has neither the High nor the Low
\* bit: outside RTH, in high and low; and a trade at 15:59:59.999 in RTH
C9_Witness ==
    /\ GeneralReturned
    /\ \E i, j \in Rows :
        /\ Timestamp(i) = 57599999
        /\ cols.RTH[i]
        /\ Timestamp(j) = 57600000
        /\ Code(j) = 15
        /\ ~cols.RTH[j]
        /\ cols.include_in_high[j]
        /\ cols.include_in_low[j]

\* C10: when a pass run on the pool has raised, apply_conditions does not
\* return to get_ohlcvc, which does not get to call calculate_ohlcvc.
C10_FailedPassAborts ==
    (\E t \in Passes : task[t].status = "raised") => pc \notin {"calculate", "returned"}

\* the pool's futures that are over: run to the end, or ended by raising
Completed(t) == task[t].status \in {"done", "raised"}

\* C11: with concurrency enabled, whenever get_ohlcvc is at the call of
\* calculate_ohlcvc or past it, each of the three passes submitted to the
\* pool is over: none is still running and none is still waiting to start.
C11_AggregatesAfterAllPasses ==
    (ENABLE_CONCURRENCY /\ pc \in {"calculate", "returned", "raised"})
        => \A t \in Passes : Completed(t)

\* get_ohlcvc is about to call calculate_ohlcvc over two trades after the
\* three passes each ran to the end on the pool
C11_Witness ==
    /\ ENABLE_CONCURRENCY
    /\ pc = "calculate"
    /\ N = 2
    /\ \A t \in Passes : task[t].status = "done"

\* s without its k-th row
Without(s, k) == [i \in 1..(Len(s) - 1) |-> IF i < k THEN s[i] ELSE s[i + 1]]

\* the rows of s ascending by timestamp, rows of equal timestamp in the
\* order they have in s: the earliest row of the least timestamp first
RECURSIVE StableSorted(_)
StableSorted(s) ==
    IF s = <<>>
    THEN <<>>
    ELSE LET least == SetMin({s[i].timestamp : i \in 1..Len(s)})
             k == SetMin({i \in 1..Len(s) : s[i].timestamp = least})
         IN  <<s[k]>> \o StableSorted(Without(s, k))

\* C12: once __init__ has built the frame, its rows are the raw trades that
\* survived the dropping of unparseable rows, ascending by timestamp, and
\* trades of equal timestamp are in their order of arrival.
C12_TiesKeepArrivalOrder ==
    pc # "__init__" => df_trades = StableSorted(dropna(trades))

====
